---- MODULE Spec2Model ----
(***************************************************************************)
(* Model of hooks/tk-multi-publish2/basic/publish_unreal_asset.py          *)
(* (UnrealAssetPublishPlugin): the accept / validate / publish / finalize  *)
(* callbacks, the item property dictionary they annotate, and the          *)
(* filesystem the recursive copy acts on.                                  *)
(*                                                                         *)
(* A character string is a sequence of atoms.  The atom "/" is the path    *)
(* separator, the atom "." is a dot, every other atom stands for one or    *)
(* more characters that are neither.  So ".." is <<".", ".">> and          *)
(* "/Game/Hero" is <<"/", "Game", "/", "Hero">>.  os.path is posixpath.    *)
(***************************************************************************)
EXTENDS Integers, Sequences, FiniteSets, TLC

VARIABLES
    props,       \* item.properties of each item
    settings,    \* settings["Publish Template"].value
    fs,          \* the directories on disk and what each holds
    today,       \* datetime.date.today()
    accept_ret,  \* what accept returned for each item
    validate_ret,\* what the last validate call returned for each item
    pub,         \* the last publish call: its item, its calls in order, its outcome
    result,      \* where each item's publish task stands
    copied,      \* the copies shutil.copytree completed, in order
    registered,  \* the publishes the base class registered, in order
    npub         \* number of publish calls so far

vars == <<props, settings, fs, today, accept_ret, validate_ret, pub, result, copied, registered, npub>>

(***************************************************************************)
(* Bounds.                                                                 *)
(***************************************************************************)
MaxDayAdvance == 1
MaxPublishCalls == 2

(***************************************************************************)
(* Values of the property dictionary.  Every value is a sequence of atoms. *)
(***************************************************************************)
Absent == <<"<absent>">>
None == <<"<none>">>
EmptyStr == <<>>

Items == {1, 2}

Keys == {"asset_path", "asset_name", "publish_template", "path",
         "destination_path", "publish_type"}

\* dict.get(key): None for a key that is not in the dictionary
Get(d, k) == IF d[k] = Absent THEN None ELSE d[k]

\* Python truthiness of a str-or-None value
Falsy(v) == v = None \/ v = EmptyStr

(***************************************************************************)
(* String and path functions.                                              *)
(***************************************************************************)
RECURSIVE SplitSlash(_)
\* str.split("/")
SplitSlash(s) ==
    IF s = <<>> THEN << <<>> >>
    ELSE LET r == SplitSlash(Tail(s))
         IN  IF Head(s) = "/" THEN << <<>> >> \o r
             ELSE << <<Head(s)>> \o Head(r) >> \o Tail(r)

RECURSIVE JoinSlash(_)
\* "/".join(list)
JoinSlash(l) ==
    IF l = <<>> THEN <<>>
    ELSE IF Len(l) = 1 THEN l[1]
    ELSE l[1] \o <<"/">> \o JoinSlash(Tail(l))

\* list[2:-1]
SliceTwoToLast(l) == SubSeq(l, 3, Len(l) - 1)

StartsWithSlash(s) == s /= <<>> /\ s[1] = "/"
EndsWithSlash(s) == s /= <<>> /\ s[Len(s)] = "/"

\* posixpath.join(a, b)
os_path_join(a, b) ==
    IF StartsWithSlash(b) THEN b
    ELSE IF a = <<>> \/ EndsWithSlash(a) THEN a \o b
    ELSE a \o <<"/">> \o b

Dot == <<".">>
DotDot == <<".", ".">>

RECURSIVE NormComps(_, _, _)
\* the loop of posixpath.normpath over the components
NormComps(comps, new_comps, initial_slashes) ==
    IF comps = <<>> THEN new_comps
    ELSE LET comp == Head(comps)
             rest == Tail(comps)
         IN  IF comp = <<>> \/ comp = Dot
             THEN NormComps(rest, new_comps, initial_slashes)
             ELSE IF \/ comp /= DotDot
                     \/ (initial_slashes = 0 /\ new_comps = <<>>)
                     \/ (new_comps /= <<>> /\ new_comps[Len(new_comps)] = DotDot)
             THEN NormComps(rest, Append(new_comps, comp), initial_slashes)
             ELSE IF new_comps /= <<>>
             THEN NormComps(rest, SubSeq(new_comps, 1, Len(new_comps) - 1),
                            initial_slashes)
             ELSE NormComps(rest, new_comps, initial_slashes)

\* posixpath.normpath(path)
os_path_normpath(path) ==
    IF path = <<>> THEN Dot
    ELSE LET initial_slashes ==
                 IF ~StartsWithSlash(path) THEN 0
                 ELSE IF Len(path) >= 2 /\ path[2] = "/"
                         /\ ~(Len(path) >= 3 /\ path[3] = "/")
                 THEN 2 ELSE 1
             joined == JoinSlash(NormComps(SplitSlash(path), <<>>, initial_slashes))
             out == [k \in 1..initial_slashes |-> "/"] \o joined
         IN  IF out = <<>> THEN Dot ELSE out

RECURSIVE RStripSlash(_)
\* str.rstrip("/")
RStripSlash(s) ==
    IF EndsWithSlash(s) THEN RStripSlash(SubSeq(s, 1, Len(s) - 1)) ELSE s

RECURSIVE RFindSlash(_)
\* str.rfind("/") + 1
RFindSlash(s) ==
    IF s = <<>> THEN 0
    ELSE IF s[Len(s)] = "/" THEN Len(s)
    ELSE RFindSlash(SubSeq(s, 1, Len(s) - 1))

\* posixpath.split(p)[0]
os_path_split_head(p) ==
    LET i == RFindSlash(p)
        head == SubSeq(p, 1, i)
    IN  IF head /= <<>> /\ RStripSlash(head) /= <<>> THEN RStripSlash(head) ELSE head

DigitChar(d) == <<"0", "1", "2", "3", "4", "5", "6", "7", "8", "9">>[d + 1]

RECURSIVE IntToStr(_)
\* the decimal digits of a non-negative integer field, as the template writes it
IntToStr(n) ==
    IF n < 10 THEN <<DigitChar(n)>>
    ELSE IntToStr(n \div 10) \o <<DigitChar(n % 10)>>

(***************************************************************************)
(* Collaborators: the template engine, the framework and the filesystem.   *)
(***************************************************************************)
\* templates.yml: the templates the configuration defines, by name
Templates ==
    [ dated   |-> <<"/", "pub", "/", "{YYYY}", "/", "{MM}", "/", "{DD}", "/", "{name}">>,
      version |-> <<"/", "pub", "/", "{name}", ".", "v">>,
      messy   |-> <<"/", "pub", "/", "/", "x", "/", ".", ".", "/", "{name}", "/">>,
      rooted  |-> <<"/", "{name}">> ]

\* values the "Publish Template" setting can hold
SettingValues == DOMAIN Templates \cup {"undefined_template", "<none>"}

\* publisher.get_template_by_name(name)
get_template_by_name(name) ==
    IF name \in DOMAIN Templates THEN Templates[name] ELSE None

RECURSIVE apply_fields(_, _)
\* template.apply_fields(fields)
apply_fields(template, fields) ==
    IF template = <<>> THEN <<>>
    ELSE LET t == Head(template)
             v == IF t = "{name}" THEN fields.name
                  ELSE IF t = "{YYYY}" THEN IntToStr(fields.YYYY)
                  ELSE IF t = "{MM}" THEN IntToStr(fields.MM)
                  ELSE IF t = "{DD}" THEN IntToStr(fields.DD)
                  ELSE <<t>>
         IN  v \o apply_fields(Tail(template), fields)

\* ue.get_shotgun_work_dir()
work_dir == <<"/", "work">>

\* the process's current directory, as resolved components
Cwd == << <<"home">> >>

RECURSIVE ResolveComps(_, _)
ResolveComps(comps, at) ==
    IF comps = <<>> THEN at
    ELSE LET comp == Head(comps)
         IN  IF comp = <<>> \/ comp = Dot THEN ResolveComps(Tail(comps), at)
             ELSE IF comp = DotDot
             THEN ResolveComps(Tail(comps),
                               IF at = <<>> THEN at ELSE SubSeq(at, 1, Len(at) - 1))
             ELSE ResolveComps(Tail(comps), Append(at, comp))

\* the directory a path string names: its components from the root
Resolve(p) ==
    ResolveComps(SplitSlash(p), IF StartsWithSlash(p) THEN <<>> ELSE Cwd)

Prefixes(p) == {SubSeq(p, 1, k) : k \in 0..Len(p)}

IsPrefix(p, q) == Len(p) <= Len(q) /\ SubSeq(q, 1, Len(p)) = p

\* os.makedirs(p): p and its missing ancestors now exist, empty
MakeDirs(f, p) ==
    [q \in DOMAIN f \cup Prefixes(p) |-> IF q \in DOMAIN f THEN f[q] ELSE "<empty>"]

\* the tree under src, re-rooted at dst
CopiedTree(f, src, dst) ==
    {dst \o SubSeq(q, Len(src) + 1, Len(q)) : q \in {r \in DOMAIN f : IsPrefix(src, r)}}

\* the filesystem after shutil.copytree(src, dst) has copied everything
CopyTreeDone(f, src, dst) ==
    LET g == MakeDirs(f, dst)
    IN  [q \in DOMAIN g \cup CopiedTree(f, src, dst) |->
            IF q \in CopiedTree(f, src, dst)
            THEN f[src \o SubSeq(q, Len(dst) + 1, Len(q))]
            ELSE g[q]]

\* a copytree that accepts an existing target (dirs_exist_ok)
copytree_outcomes_Overwrite(f, src, dst) ==
    IF Resolve(src) \notin DOMAIN f THEN {"FileNotFoundError"} ELSE {"ok", "IOError"}

\* the outcomes of shutil.copytree(src, dst), which never overwrites
copytree_outcomes(f, src, dst) ==
    IF Resolve(src) \notin DOMAIN f THEN {"FileNotFoundError"}
    ELSE IF Resolve(dst) \in DOMAIN f THEN {"FileExistsError"}
    ELSE {"ok", "IOError"}

\* the filesystem shutil.copytree(src, dst) leaves behind, by outcome
copytree_fs(f, src, dst, outcome) ==
    IF outcome = "ok" THEN CopyTreeDone(f, Resolve(src), Resolve(dst))
    ELSE IF outcome = "IOError" THEN MakeDirs(f, Resolve(dst))
    ELSE f

(***************************************************************************)
(* Inputs: what the collector put on each item, and the disk at start.     *)
(***************************************************************************)
\* the (asset_path, asset_name) pairs the collector can put on an item
ItemInputs ==
    { << <<"/", "Game", "/", "Characters", "/", "Hero", "/", "Hero_Skeleton">>, <<"Hero">> >>,
      << <<"/", "Game", "/", "/", "etc", "/", "Hero">>, <<"Hero">> >>,
      << <<"Hero">>, <<"Orc">> >>,
      << Absent, <<"Hero">> >>,
      << EmptyStr, <<"Orc">> >>,
      << <<"/", "Game", "/", "Characters", "/", "Hero", "/", "Hero_Skeleton">>, Absent >>,
      << <<"/", "Game", "/", "Characters", "/", "Hero", "/", "Hero_Skeleton">>, EmptyStr >> }

StartDate == [year |-> 2024, month |-> 3, day |-> 5]

InitFs ==
    LET Work == << <<"work">> >>
        Content == Work \o << <<"Content">> >>
        Chars == Content \o << <<"Characters">> >>
    IN  (<<>> :> "<empty>") @@ (Work :> "<empty>") @@ (Content :> "content")
        @@ (Chars :> "characters") @@ ((Chars \o << <<"Hero">> >>) :> "hero mesh")
        @@ (<< <<"etc">> >> :> "system files") @@ (Cwd :> "<empty>")

NoAccept == [called |-> FALSE, accepted |-> FALSE, checked |-> FALSE]

NoValidate == [called |-> FALSE, value |-> FALSE]

NoPub == [item |-> 0, calls |-> <<>>, src |-> <<>>, dst |-> <<>>, exc |-> "none"]

Init ==
    /\ props \in [Items -> {[k \in Keys |->
                               IF k = "asset_path" THEN in[1]
                               ELSE IF k = "asset_name" THEN in[2]
                               ELSE Absent] : in \in ItemInputs}]
    /\ settings \in SettingValues
    /\ fs = InitFs
    /\ today = StartDate
    /\ accept_ret = [i \in Items |-> NoAccept]
    /\ validate_ret = [i \in Items |-> NoValidate]
    /\ pub = NoPub
    /\ result = [i \in Items |-> "none"]
    /\ copied = <<>>
    /\ registered = <<>>
    /\ npub = 0

(***************************************************************************)
(* The callbacks.  The framework calls them one at a time; accept is       *)
(* called once for an item, when its task is created.                      *)
(***************************************************************************)
\* accept that never clears the flag it starts from
AcceptResult_AlwaysTrue(publish_template) == TRUE

\* accept: whether the item is accepted, given the template found
AcceptResult(publish_template) == ~Falsy(publish_template)

\* accept(settings, item)
Accept(i) ==
    /\ props[i]["publish_template"] = Absent
    /\ LET publish_template == get_template_by_name(settings)
       IN  /\ props' = [props EXCEPT ![i]["publish_template"] = publish_template]
           /\ accept_ret' = [accept_ret EXCEPT ![i] =
                                 [called |-> TRUE,
                                  accepted |-> AcceptResult(publish_template),
                                  checked |-> TRUE]]
    /\ UNCHANGED <<settings, fs, today, validate_ret, pub, result, copied, registered, npub>>

\* validate without the check of the stashed template
ValidateOk_NoTemplateCheck(asset_path, asset_name, publish_template) ==
    ~(Falsy(asset_path) \/ Falsy(asset_name))

\* validate: the checks that let it go on to compute the paths
ValidateOk(asset_path, asset_name, publish_template) ==
    /\ ~(Falsy(asset_path) \/ Falsy(asset_name))
    /\ ~Falsy(publish_template)

\* validate: the fields handed to the template
Fields(asset_name, date) ==
    [name |-> asset_name, YYYY |-> date.year, MM |-> date.month, DD |-> date.day]

\* validate storing the template's result without normalising it
ValidatePath_NoNormpath(publish_template, asset_name, date) ==
    apply_fields(publish_template, Fields(asset_name, date))

\* validate: item.properties["path"]
ValidatePath(publish_template, asset_name, date) ==
    os_path_normpath(apply_fields(publish_template, Fields(asset_name, date)))

\* validate keeping the whole publish path as the destination
ValidateDestination_NoSplit(publish_path) == publish_path

\* validate: item.properties["destination_path"]
ValidateDestination(publish_path) == os_path_split_head(publish_path)

\* validate(settings, item)
Validate(i) ==
    /\ LET asset_path == Get(props[i], "asset_path")
           asset_name == Get(props[i], "asset_name")
           publish_template == Get(props[i], "publish_template")
           publish_path == ValidatePath(publish_template, asset_name, today)
       IN  IF ~ValidateOk(asset_path, asset_name, publish_template)
           THEN /\ validate_ret' = [validate_ret EXCEPT ![i] =
                                       [called |-> TRUE, value |-> FALSE]]
                /\ UNCHANGED props
           ELSE /\ props' = [props EXCEPT
                                ![i]["publish_type"] = <<"Unreal Folder">>,
                                ![i]["path"] = publish_path,
                                ![i]["destination_path"] = ValidateDestination(publish_path)]
                /\ validate_ret' = [validate_ret EXCEPT ![i] =
                                       [called |-> TRUE, value |-> TRUE]]
    /\ UNCHANGED <<settings, fs, today, accept_ret, pub, result, copied, registered, npub>>

\* self.parent.ensure_folder_exists(path): raises for a path it cannot create
ensure_folder_exists_ok(path) == path /= EmptyStr

\* the filesystem after self.parent.ensure_folder_exists(path)
ensure_folder_exists(f, path) == MakeDirs(f, Resolve(path))

\* publish: the source directory of the copy
SourcePath(asset_path) ==
    LET path == JoinSlash(SliceTwoToLast(SplitSlash(asset_path)))
    IN  os_path_join(os_path_join(work_dir, <<"Content">>), path)

\* publish: the target directory of the copy
TargetPath(destination_path, asset_name) == os_path_join(destination_path, asset_name)

\* publish going on to the base class whatever the copy did
ReachesBasePublish_Always(outcome) == TRUE

\* publish: whether the base class's publish is reached after the copy
ReachesBasePublish(outcome) == outcome = "ok"

EnsureCall(ok) == [fn |-> "ensure_folder_exists", ok |-> ok]
CopyCall(ok) == [fn |-> "copytree", ok |-> ok]
BaseCall == [fn |-> "publish", ok |-> TRUE]

\* publish(settings, item)
Publish(i) ==
    /\ npub < MaxPublishCalls
    /\ npub' = npub + 1
    /\ LET destination_path == props[i]["destination_path"]
           asset_path == props[i]["asset_path"]
           asset_name == props[i]["asset_name"]
           path == SourcePath(asset_path)
           target == TargetPath(destination_path, asset_name)
           f1 == ensure_folder_exists(fs, destination_path)
       IN  IF destination_path = Absent
           THEN \* item.properties["destination_path"] raises KeyError
                /\ pub' = [item |-> i, calls |-> <<>>, src |-> <<>>, dst |-> <<>>,
                           exc |-> "KeyError"]
                /\ result' = [result EXCEPT ![i] = "failed"]
                /\ UNCHANGED <<fs, copied, registered>>
           ELSE IF ~ensure_folder_exists_ok(destination_path)
           THEN /\ pub' = [item |-> i, calls |-> <<EnsureCall(FALSE)>>, src |-> <<>>,
                           dst |-> <<>>, exc |-> "TankError"]
                /\ result' = [result EXCEPT ![i] = "failed"]
                /\ UNCHANGED <<fs, copied, registered>>
           ELSE IF asset_path = Absent \/ asset_name = Absent
           THEN /\ pub' = [item |-> i, calls |-> <<EnsureCall(TRUE)>>, src |-> <<>>,
                           dst |-> <<>>, exc |-> "KeyError"]
                /\ result' = [result EXCEPT ![i] = "failed"]
                /\ fs' = f1
                /\ UNCHANGED <<copied, registered>>
           ELSE \E outcome \in copytree_outcomes(f1, path, target) :
                /\ fs' = copytree_fs(f1, path, target, outcome)
                /\ copied' = IF outcome = "ok"
                             THEN Append(copied, [item |-> i, src |-> path, dst |-> target])
                             ELSE copied
                /\ IF ReachesBasePublish(outcome)
                   THEN /\ registered' = Append(registered,
                                                [item |-> i, path |-> props[i]["path"]])
                        /\ pub' = [item |-> i,
                                   calls |-> <<EnsureCall(TRUE), CopyCall(outcome = "ok"),
                                               BaseCall>>,
                                   src |-> path, dst |-> target, exc |-> "ok"]
                        /\ result' = [result EXCEPT ![i] = "published"]
                   ELSE /\ pub' = [item |-> i,
                                   calls |-> <<EnsureCall(TRUE), CopyCall(FALSE)>>,
                                   src |-> path, dst |-> target, exc |-> outcome]
                        /\ result' = [result EXCEPT ![i] = "failed"]
                        /\ UNCHANGED registered
    /\ UNCHANGED <<props, settings, today, accept_ret, validate_ret>>

\* finalize(settings, item): called once the item's publish has completed
Finalize(i) ==
    /\ result[i] = "published"
    /\ result' = [result EXCEPT ![i] = "finalized"]
    /\ UNCHANGED <<props, settings, fs, today, accept_ret, validate_ret, pub,
                   copied, registered, npub>>

\* midnight: datetime.date.today() moves on
AdvanceDay ==
    /\ today.day < StartDate.day + MaxDayAdvance
    /\ today' = [today EXCEPT !.day = @ + 1]
    /\ UNCHANGED <<props, settings, fs, accept_ret, validate_ret, pub, result,
                   copied, registered, npub>>

Next ==
    \/ \E i \in Items : Accept(i)
    \/ \E i \in Items : Validate(i)
    \/ \E i \in Items : Publish(i)
    \/ \E i \in Items : Finalize(i)
    \/ AdvanceDay

Spec == Init /\ [][Next]_vars

(***************************************************************************)
(* Properties.                                                             *)
(***************************************************************************)
\* the step is a publish call for item i
PublishStep(i) == npub' = npub + 1 /\ pub'.item = i

\* the step is a validate call for item i
ValidateStep(i) ==
    /\ validate_ret'[i].called
    /\ <<validate_ret[i], props[i]>>' /= <<validate_ret[i], props[i]>>
    /\ props'[i]["publish_template"] = props[i]["publish_template"]

\* the directories of f at or below directory d, relative to d
TreeAt(f, d) ==
    [q \in {SubSeq(r, Len(d) + 1, Len(r)) : r \in {x \in DOMAIN f : IsPrefix(d, x)}}
        |-> f[d \o q]]

\* the parent of a directory
ParentDir(d) == IF d = <<>> THEN d ELSE SubSeq(d, 1, Len(d) - 1)

\* C1: accept fails closed.  After accept, accepted is false exactly when
\* the configured template name resolves to nothing, checked is true, and
\* item.properties["publish_template"] holds the lookup result.
C1_AcceptFailsClosed ==
    \A i \in Items :
        accept_ret[i].called =>
            /\ accept_ret[i].checked = TRUE
            /\ IF settings \in DOMAIN Templates
               THEN /\ accept_ret[i].accepted = TRUE
                    /\ props[i]["publish_template"] = Templates[settings]
               ELSE /\ accept_ret[i].accepted = FALSE
                    /\ props[i]["publish_template"] = None

C1_Witness ==
    \E i \in Items :
        /\ accept_ret[i].called /\ accept_ret[i].accepted = FALSE
        /\ props[i]["publish_template"] = None
        /\ settings = "undefined_template"

\* validate's required inputs are not all there
MissingInput(i) ==
    \/ props[i]["asset_path"] \in {Absent, None, EmptyStr}
    \/ props[i]["asset_name"] \in {Absent, None, EmptyStr}
    \/ props[i]["publish_template"] \in {Absent, None, EmptyStr}

\* C2: a validate call on an item that lacks asset_path, asset_name or a
\* resolved template returns false and leaves path, destination_path and
\* publish_type as they were.
C2_ValidateRejectsMissing ==
    [][\A i \in Items :
          (ValidateStep(i) /\ MissingInput(i)) =>
              /\ validate_ret'[i].value = FALSE
              /\ props'[i]["path"] = props[i]["path"]
              /\ props'[i]["destination_path"] = props[i]["destination_path"]
              /\ props'[i]["publish_type"] = props[i]["publish_type"]]_vars

C2_Witness ==
    /\ validate_ret[1].called /\ validate_ret[1].value = FALSE
    /\ props[1]["asset_path"] \notin {Absent, None, EmptyStr}
    /\ props[1]["asset_name"] \notin {Absent, None, EmptyStr}
    /\ props[1]["publish_template"] = None
    /\ validate_ret[2].called /\ validate_ret[2].value = FALSE
    /\ props[2]["asset_name"] = EmptyStr

\* the last component of a path string
LastSegment(p) == SplitSlash(p)[Len(SplitSlash(p))]

\* the three properties validate writes
Written(d) == <<d["path"], d["destination_path"], d["publish_type"]>>

\* path, destination_path and publish_type are what validate is to leave
\* behind for this template, asset name and date
WellFormed(d, date) ==
    LET path == d["path"]
        dest == d["destination_path"]
    IN  /\ path = os_path_normpath(
                      apply_fields(d["publish_template"],
                                   [name |-> d["asset_name"], YYYY |-> date.year,
                                    MM |-> date.month, DD |-> date.day]))
        /\ os_path_join(dest, LastSegment(path)) = path
        /\ (EndsWithSlash(dest) => dest = <<"/">>)
        /\ d["publish_type"] = <<"Unreal Folder">>
        /\ (/\ settings = "dated" /\ d["asset_name"] = <<"Hero">>
            /\ date = [year |-> 2024, month |-> 3, day |-> 5])
           => /\ path = <<"/", "pub", "/", "2", "0", "2", "4", "/", "3", "/", "5",
                         "/", "Hero">>
              /\ dest = <<"/", "pub", "/", "2", "0", "2", "4", "/", "3", "/", "5">>

\* C3: a step that leaves an item validated (validate has returned true for
\* it) either is a validate that writes path as the normalised result of the
\* stashed template for the item's name and the current date,
\* destination_path as path without its last segment and publish_type as
\* "Unreal Folder", or keeps all three as validate wrote them; publish and
\* finalize are steps of the second kind.
C3_ValidatedPaths ==
    [][\A i \in Items :
          validate_ret'[i].value =>
              \/ /\ ValidateStep(i)
                 /\ WellFormed(props'[i], today)
              \/ /\ validate_ret[i].value
                 /\ Written(props'[i]) = Written(props[i])]_vars

C3_Witness ==
    \E i \in Items :
        /\ validate_ret[i].value
        /\ result[i] = "finalized"
        /\ settings = "messy"
        /\ props[i]["path"] = <<"/", "pub", "/", "Hero">>
        /\ props[i]["destination_path"] = <<"/", "pub">>
        /\ props[i]["publish_type"] = <<"Unreal Folder">>

\* C4: the copy reads from <work_dir>/Content/<the asset path's segments
\* without the first two and the last> and writes to
\* <destination_path>/<asset_name>.
RECURSIVE SlashEach(_)
SlashEach(l) == IF l = <<>> THEN <<>> ELSE <<"/">> \o Head(l) \o SlashEach(Tail(l))

C4_SourceAndTarget ==
    [][\A i \in Items :
          (PublishStep(i) /\ pub'.src /= <<>>) =>
              LET rest == SubSeq(SplitSlash(props[i]["asset_path"]), 3,
                                 Len(SplitSlash(props[i]["asset_path"])) - 1)
              IN  /\ Resolve(pub'.src)
                       = Resolve(work_dir \o <<"/", "Content">> \o SlashEach(rest))
                  /\ Resolve(pub'.dst)
                       = Resolve(props[i]["destination_path"] \o <<"/">>
                                 \o props[i]["asset_name"])]_vars

\* C5: a publish call made while <destination_path>/<asset_name> exists
\* raises, registers nothing, and leaves that directory's tree as it was.
C5_NeverOverwrites ==
    [][\A i \in Items :
          LET dest == props[i]["destination_path"]
              name == props[i]["asset_name"]
              target == Append(Resolve(dest), name)
          IN  (/\ PublishStep(i)
               /\ dest \notin {Absent, EmptyStr}
               /\ name \notin {Absent, None, EmptyStr}
               /\ target \in DOMAIN fs)
              => /\ pub'.exc \notin {"ok", "none"}
                 /\ registered' = registered
                 /\ TreeAt(fs', target) = TreeAt(fs, target)]_vars

C5_Witness ==
    /\ pub.exc = "FileExistsError"
    /\ Resolve(pub.dst) \in DOMAIN fs
    /\ \E k \in 1..Len(copied) : Resolve(copied[k].dst) = Resolve(pub.dst)
    /\ fs[Resolve(pub.dst)] = "hero mesh"

\* C6: no two completed copies have the same destination directory: of the
\* publishes that resolve to one destination, at most one completes its copy.
C6_OneCopyPerDestination ==
    \A j, k \in 1..Len(copied) :
        j /= k => Resolve(copied[j].dst) /= Resolve(copied[k].dst)

C6_Witness ==
    /\ pub.exc = "FileExistsError"
    /\ \E k \in 1..Len(copied) :
          /\ copied[k].item /= pub.item
          /\ Resolve(copied[k].dst) = Resolve(pub.dst)
    /\ props[1]["destination_path"] = props[2]["destination_path"]
    /\ props[1]["asset_name"] = props[2]["asset_name"]

\* C7 as stated: a successful publish leaves the copied tree rooted at
\* <item.properties["path"]>/<asset_name>.
C7_TreeUnderPublishPath ==
    [][\A i \in Items :
          (PublishStep(i) /\ pub'.exc = "ok") =>
              LET root == Append(Resolve(props[i]["path"]), props[i]["asset_name"])
              IN  /\ root \in DOMAIN fs'
                  /\ TreeAt(fs', root) = TreeAt(fs, Resolve(pub'.src))]_vars

\* C7 amended: a successful publish leaves the copied tree rooted at
\* <parent directory of item.properties["path"]>/<asset_name>, and the tree
\* there is the source tree.
C7_TreeBesidePublishPath ==
    [][\A i \in Items :
          (PublishStep(i) /\ pub'.exc = "ok") =>
              LET root == Append(ParentDir(Resolve(props[i]["path"])),
                                 props[i]["asset_name"])
              IN  /\ root \in DOMAIN fs'
                  /\ root \notin DOMAIN fs
                  /\ TreeAt(fs', root) = TreeAt(fs, Resolve(pub'.src))]_vars

C7_Witness ==
    /\ pub.exc = "ok"
    /\ settings = "dated"
    /\ props[pub.item]["asset_name"] = <<"Hero">>
    /\ today = StartDate
    /\ << <<"pub">>, <<"2", "0", "2", "4">>, <<"3">>, <<"5">>, <<"Hero">> >> \in DOMAIN fs
    /\ fs[<< <<"pub">>, <<"2", "0", "2", "4">>, <<"3">>, <<"5">>, <<"Hero">> >>] = "hero mesh"

\* C8: in a publish call the base class's publish comes third, after an
\* ensure_folder_exists and a copytree that both succeeded; a call that
\* raised made no base-class call and registered nothing.
C8_RegistrationFollowsCopy ==
    [][\A i \in Items :
          PublishStep(i) =>
              /\ \A k \in 1..Len(pub'.calls) :
                    pub'.calls[k].fn = "publish" =>
                        /\ k = 3
                        /\ pub'.calls[1] = [fn |-> "ensure_folder_exists", ok |-> TRUE]
                        /\ pub'.calls[2] = [fn |-> "copytree", ok |-> TRUE]
              /\ (registered' /= registered =>
                    /\ pub'.exc = "ok"
                    /\ Len(pub'.calls) = 3 /\ pub'.calls[3].fn = "publish")
              /\ (pub'.exc /= "ok" =>
                    /\ registered' = registered
                    /\ \A k \in 1..Len(pub'.calls) : pub'.calls[k].fn /= "publish")]_vars

C8_Witness ==
    /\ pub.exc = "IOError"
    /\ Len(pub.calls) = 2
    /\ Len(registered) = 1
    /\ registered[1].item /= pub.item

\* C9: every registered path names the directory the copy of that publish
\* created.
C9_RegisteredPathIsCopiedDir ==
    /\ Len(registered) = Len(copied)
    /\ \A k \in 1..Len(registered) :
          Resolve(registered[k].path) = Resolve(copied[k].dst)

\* C10: the source directory handed to copytree is <work_dir>/Content or
\* lies below it.
C10_SourceInsideContent ==
    pub.src /= <<>> =>
        IsPrefix(Resolve(work_dir \o <<"/", "Content">>), Resolve(pub.src))

====
